---- MODULE Spec2Model ----
(***************************************************************************)
(* Model of marian's Config (src/common/config.cpp): the settings store    *)
(* config_, Config::initialize, Config::override and Config::getDevices.   *)
(*                                                                         *)
(* A YAML scalar is its text, a sequence of one-character strings, so that *)
(* the typed reads (as<size_t>, as<bool>, std::stoull) are conversions of  *)
(* text.  A YAML node is a sequence of texts whose first element is a tag: *)
(*   scalar  <<TagS, text>>                                                *)
(*   list    <<TagL, text1, ..., textn>>                                   *)
(*   map     <<TagM, key1, value1, ..., keyn, valuen>>                     *)
(* config_ is a function from the top-level keys present to their nodes.   *)
(***************************************************************************)
EXTENDS Integers, Sequences, FiniteSets, TLC

VARIABLES
  mode,             \* cli::mode of this Config
  config_,          \* Config::config_, the settings store
  pc,               \* position inside Config::initialize, "done" after it
  seed,             \* Config::seed
  files,            \* the model artifacts on disk, by file name
  trace,            \* the log lines and the override calls, in order
  parserConfig,     \* the store as parser.getConfig() produced it
  loggedConfig,     \* the store as Config::log() printed it
  ret,              \* outcome of the last getDevices call
  devices,          \* the vector the last getDevices call returned
  abortMsg,         \* the ABORT_IF message of the last getDevices call
  locals,           \* numDevices and deviceNos.size() when the last call divided
  myMPIRank,        \* arguments of the last getDevices call
  numMPIProcesses,
  prevConfig,       \* the store before the last override call
  docs,             \* the arguments of the override calls, in order
  repeated,         \* the last override call repeated the one before it
  publicCalls       \* override calls made after initialize returned

vars == <<mode, config_, pc, seed, files, trace, parserConfig, loggedConfig, ret,
          devices, abortMsg, locals, myMPIRank, numMPIProcesses, prevConfig, docs,
          repeated, publicCalls>>

(***************************************************************************)
(* Bounds of the model.                                                    *)
(***************************************************************************)
MaxThreads == 2
MaxNumDevices == 4
MaxDevs == 4
MaxProcs == 3
MaxPublicCalls == 2

(***************************************************************************)
(* YAML nodes and their typed reads.                                       *)
(***************************************************************************)
TagS == <<"S">>
TagL == <<"L">>
TagM == <<"M">>

Scalar(text) == <<TagS, text>>
List(texts) == <<TagL>> \o texts
NoDoc == [k \in {} |-> <<>>]

Digits == <<"0", "1", "2", "3", "4", "5", "6", "7", "8", "9">>

\* the text of a number below 10, as the command line carries it
Text(n) == <<Digits[n + 1]>>

digitValue(c) == (CHOOSE i \in 1..10 : Digits[i] = c) - 1

\* decimal value of a text of digits, most significant digit first
RECURSIVE decimal(_)
decimal(text) ==
  IF text = <<>> THEN 0
  ELSE 10 * decimal(SubSeq(text, 1, Len(text) - 1)) + digitValue(text[Len(text)])

\* std::stoull(d): base 10, leading zeros carry no value
stoull(text) == decimal(text)

\* YAML::Node::as<size_t>()
asSizeT(node) == decimal(node[2])

\* YAML::Node::as<bool>(): "y" is true, "n" is false
asBool(node) == node[2] = <<"y">>

\* YAML::Node::as<std::string>()
asString(node) == node[2]

\* YAML::Node::as<std::vector<std::string>>()
asStringVector(node) == Tail(node)

\* Config::has(key): the node config_[key] is defined
has(key) == key \in DOMAIN config_

\* Config::get(key)
get(key) == config_[key]

(***************************************************************************)
(* Config::getDevices                                                      *)
(***************************************************************************)
DeviceId(no, type) == [no |-> no, type |-> type]

MsgSize == "devices[] size must be equal to numDevices"
MsgMultiple == "devices[] size must be equal to or a multiple of numDevices"
MsgShared == "devices[] must either list a shared set of devices, or one set per MPI process"

\* mutant of cpuDevices: the threads numbered from 1
cpuDevices_FromOne(cpuThreads) == [i \in 1..cpuThreads |-> DeviceId(i, "cpu")]

\* the CPU branch: one device per thread, numbered from 0
cpuDevices(cpuThreads) == [i \in 1..cpuThreads |-> DeviceId(i - 1, "cpu")]

\* deviceNos as parsed from devices[]
parseDeviceNos(devicesArg) == [i \in 1..Len(devicesArg) |-> stoull(devicesArg[i])]

\* mutant of defaultNumDevices: a given list does not set an unset numDevices
defaultNumDevices_ListUnused(numDevices, deviceNos) ==
  IF deviceNos = <<>>
    THEN (IF numDevices = 0 THEN 1 ELSE numDevices)
    ELSE numDevices

\* numDevices after the defaulting of lines 183-191
defaultNumDevices(numDevices, deviceNos) ==
  IF deviceNos = <<>>
    THEN (IF numDevices = 0 THEN 1 ELSE numDevices)
    ELSE (IF numDevices = 0 THEN Len(deviceNos) ELSE numDevices)

\* mutant of defaultDeviceNos: the default allocation numbered from 1
defaultDeviceNos_FromOne(numDevices, deviceNos) ==
  IF deviceNos = <<>> THEN [i \in 1..numDevices |-> i] ELSE deviceNos

\* deviceNos after the defaulting of lines 183-188; numDevices is defaulted
defaultDeviceNos(numDevices, deviceNos) ==
  IF deviceNos = <<>> THEN [i \in 1..numDevices |-> i - 1] ELSE deviceNos

\* mutant of deviceError: the check of line 201 left out
deviceError_NoSharedCheck(numDevices, size, numProcs) ==
  LET numPerMPIProcessDeviceNos == size \div numDevices
  IN  IF numProcs = 1 /\ numDevices # size THEN MsgSize
      ELSE IF numDevices * numPerMPIProcessDeviceNos # size THEN MsgMultiple
      ELSE ""

\* the first ABORT_IF that fires, "" when none does
deviceError(numDevices, size, numProcs) ==
  LET numPerMPIProcessDeviceNos == size \div numDevices
  IN  IF numProcs = 1 /\ numDevices # size THEN MsgSize
      ELSE IF numDevices * numPerMPIProcessDeviceNos # size THEN MsgMultiple
      ELSE IF numPerMPIProcessDeviceNos # 1 /\ numPerMPIProcessDeviceNos # numProcs
        THEN MsgShared
      ELSE ""

\* mutant of sliceDeviceNos: the block offset is rank, not rank * numDevices
sliceDeviceNos_OffsetRank(deviceNos, rank, numDevices) ==
  LET erased == SubSeq(deviceNos, rank + 1, Len(deviceNos))
  IN  [i \in 1..numDevices |-> IF i <= Len(erased) THEN erased[i] ELSE 0]

\* deviceNos.erase(begin, begin + rank * numDevices); deviceNos.resize(numDevices)
sliceDeviceNos(deviceNos, rank, numDevices) ==
  LET erased == SubSeq(deviceNos, rank * numDevices + 1, Len(deviceNos))
  IN  [i \in 1..numDevices |-> IF i <= Len(erased) THEN erased[i] ELSE 0]

\* mutant of gpuDevices: the slice is taken for a shared list too
gpuDevices_AlwaysSlice(deviceNos, rank, numDevices) ==
  LET mine == [i \in 1..numDevices |->
                 IF rank * numDevices + i <= Len(deviceNos)
                   THEN deviceNos[rank * numDevices + i] ELSE 0]
  IN  [i \in 1..Len(mine) |-> DeviceId(mine[i], "gpu")]

\* the GPU branch, once no ABORT_IF fired
gpuDevices(deviceNos, rank, numDevices) ==
  LET numPerMPIProcessDeviceNos == Len(deviceNos) \div numDevices
      mine == IF numPerMPIProcessDeviceNos # 1
                THEN sliceDeviceNos(deviceNos, rank, numDevices)
                ELSE deviceNos
  IN  [i \in 1..Len(mine) |-> DeviceId(mine[i], "gpu")]

\* the locals of a call that did not reach the division of line 198
NoDivision == [divided |-> FALSE, sliced |-> FALSE, numDevices |-> 0, size |-> 0]

\* line 198 is reached unless the ABORT_IF of line 197 fired
reachesDivision(numDevices, size, numProcs) == ~(numProcs = 1 /\ numDevices # size)

\* the whole function: [abort |-> message or "", devices |-> the vector,
\* undefined |-> the division of line 198 was by zero, locals |-> as above]
getDevices(rank, numProcs) ==
  LET devicesArg == asStringVector(get("devices"))
      cpuThreads == asSizeT(get("cpu-threads"))
  IN  IF cpuThreads > 0
        THEN [abort |-> "", devices |-> cpuDevices(cpuThreads), undefined |-> FALSE,
              locals |-> NoDivision]
        ELSE
          LET given == IF has("num-devices") THEN asSizeT(get("num-devices")) ELSE 0
              parsed == parseDeviceNos(devicesArg)
              numDevices == defaultNumDevices(given, parsed)
              deviceNos == defaultDeviceNos(numDevices, parsed)
              divided == reachesDivision(numDevices, Len(deviceNos), numProcs)
              atDivision == [divided |-> divided, sliced |-> FALSE,
                             numDevices |-> numDevices, size |-> Len(deviceNos)]
          IN  IF divided /\ numDevices = 0
                THEN [abort |-> "", devices |-> <<>>, undefined |-> TRUE,
                      locals |-> atDivision]
              ELSE IF deviceError(numDevices, Len(deviceNos), numProcs) # ""
                THEN [abort |-> deviceError(numDevices, Len(deviceNos), numProcs),
                      devices |-> <<>>, undefined |-> FALSE,
                      locals |-> IF divided THEN atDivision ELSE NoDivision]
              ELSE [abort |-> "", devices |-> gpuDevices(deviceNos, rank, numDevices),
                    undefined |-> FALSE,
                    locals |-> [atDivision EXCEPT
                                  !.sliced = Len(deviceNos) \div numDevices # 1]]

\* a call; a division by zero leaves the outcome undefined and ends the model
\* of the process
GetDevices(rank, numProcs) ==
  /\ pc = "done"
  /\ ret \notin {"aborted", "undefined"}
  /\ LET r == getDevices(rank, numProcs)
     IN  /\ ret' = IF r.undefined THEN "undefined"
                   ELSE IF r.abort = "" THEN "returned" ELSE "aborted"
         /\ devices' = r.devices
         /\ abortMsg' = r.abort
         /\ locals' = r.locals
  /\ myMPIRank' = rank
  /\ numMPIProcesses' = numProcs
  /\ UNCHANGED <<mode, config_, pc, seed, files, trace, parserConfig, loggedConfig,
                 prevConfig, docs, repeated, publicCalls>>

\* the process topologies: myRank < numProcesses
Topologies == {t \in (0..(MaxProcs - 1)) \X (1..MaxProcs) : t[1] < t[2]}

(***************************************************************************)
(* The device resolver alone: a constructed Config with any device         *)
(* settings, asked for its devices.                                        *)
(***************************************************************************)
DevTexts == {<<"4">>, <<"5">>, <<"0", "2">>}

RECURSIVE SeqsUpTo(_, _)
SeqsUpTo(S, n) ==
  IF n = 0 THEN {<<>>}
  ELSE LET shorter == SeqsUpTo(S, n - 1)
       IN  shorter \cup {Append(s, x) : s \in {t \in shorter : Len(t) = n - 1}, x \in S}

DeviceConfigs ==
  LET base == {("cpu-threads" :> Scalar(Text(c))) @@ ("devices" :> List(d)) :
                 c \in 0..MaxThreads, d \in SeqsUpTo(DevTexts, MaxDevs)}
  IN  base \cup {b @@ ("num-devices" :> Scalar(Text(n))) :
                   b \in base, n \in 0..MaxNumDevices}

InitDev ==
  /\ mode \in {"training"}
  /\ config_ \in DeviceConfigs
  /\ pc = "done"
  /\ seed = 0
  /\ files = NoDoc
  /\ trace = <<>>
  /\ parserConfig = config_
  /\ loggedConfig = config_
  /\ ret = "none"
  /\ devices = <<>>
  /\ abortMsg = ""
  /\ locals = NoDivision
  /\ myMPIRank = 0
  /\ numMPIProcesses = 1
  /\ prevConfig = config_
  /\ docs = <<>>
  /\ repeated = FALSE
  /\ publicCalls = 0

NextDev == \E t \in Topologies : GetDevices(t[1], t[2])

SpecDev == InitDev /\ [][NextDev]_vars

(***************************************************************************)
(* Config::override                                                        *)
(***************************************************************************)
\* mutant of override: a list already in the store is appended to
override_AppendLists(store, params) ==
  [k \in DOMAIN store \cup DOMAIN params |->
     IF k \notin DOMAIN params THEN store[k]
     ELSE IF k \in DOMAIN store /\ store[k][1] = TagL /\ params[k][1] = TagL
       THEN store[k] \o Tail(params[k])
     ELSE params[k]]

\* mutant of override: a nested map is merged field by field
override_DeepMerge(store, params) ==
  [k \in DOMAIN store \cup DOMAIN params |->
     IF k \notin DOMAIN params THEN store[k]
     ELSE IF k \in DOMAIN store /\ store[k][1] = TagM /\ params[k][1] = TagM
       THEN params[k] \o SelectSeq(Tail(store[k]),
                                   LAMBDA old : \A i \in 2..Len(params[k]) :
                                                  params[k][i][1] # old[1])
     ELSE params[k]]

\* the store after config_[it.first] = it.second for every pair of params
override(store, params) ==
  [k \in DOMAIN store \cup DOMAIN params |->
     IF k \in DOMAIN params THEN params[k] ELSE store[k]]

(***************************************************************************)
(* Config::initialize                                                      *)
(***************************************************************************)
Event(msg, arg) == [msg |-> msg, arg |-> arg]

LogNoModelConfig == "[config] No model configuration found in model file"
LogConfig == "[config] {}"
LogUpgrade == "[config] Loaded model has been created with Marian {}, will be overwritten with current version {} at saving"
LogLoaded == "[config] Loaded model has been created with Marian {}"
LogCreated == "[config] Model is being created with Marian {}"
\* not log lines: the calls of loadModelParameters and of override
CallLoad == "loadModelParameters"
CallOverride == "override"

PROJECT_VERSION_FULL == <<"v", "2">>

\* filesystem::exists(name)
exists(name) == files[name].exists

\* io::getYamlFromModel(config, "special:model.yml", name): the fragment, or
\* the error thrown.  A file without the fragment gives the not-found error, a
\* std::runtime_error; a file that is not there gives that or another failure.
getYamlFromModel(name) ==
  IF files[name].exists /\ files[name].yml
    THEN {[kind |-> "ok", doc |-> files[name].doc]}
  ELSE IF files[name].exists
    THEN {[kind |-> "runtime_error", doc |-> NoDoc]}
  ELSE {[kind |-> "runtime_error", doc |-> NoDoc], [kind |-> "fatal", doc |-> NoDoc]}

\* mutant of loadModelParameters: the std::runtime_error is not caught
loadModelParameters_NoCatch(name, outcome) ==
  IF outcome.kind = "ok"
    THEN [config |-> override(config_, outcome.doc),
          events |-> <<Event(CallLoad, name), Event(CallOverride, <<>>)>>,
          docs |-> <<outcome.doc>>,
          fatal |-> FALSE]
  ELSE [config |-> config_, events |-> <<Event(CallLoad, name)>>, docs |-> <<>>,
        fatal |-> TRUE]

\* Config::loadModelParameters under the try/catch of lines 40-45 and 51-56: the
\* store, the events and whether the process ended, for one outcome of the read
loadModelParameters(name, outcome) ==
  IF outcome.kind = "ok"
    THEN [config |-> override(config_, outcome.doc),
          events |-> <<Event(CallLoad, name), Event(CallOverride, <<>>)>>,
          docs |-> <<outcome.doc>>,
          fatal |-> FALSE]
  ELSE IF outcome.kind = "runtime_error"
    THEN [config |-> config_,
          events |-> <<Event(CallLoad, name), Event(LogNoModelConfig, <<>>)>>,
          docs |-> <<>>,
          fatal |-> FALSE]
  ELSE [config |-> config_, events |-> <<Event(CallLoad, name)>>, docs |-> <<>>,
        fatal |-> TRUE]

noLoad == [config |-> config_, events |-> <<>>, docs |-> <<>>, fatal |-> FALSE]

\* the try block: if(!get<bool>("ignore-model-config")) loadModelParameters(model)
tryLoad(name) ==
  IF ~asBool(get("ignore-model-config"))
    THEN {loadModelParameters(name, o) : o \in getYamlFromModel(name)}
    ELSE {noLoad}

\* mutant of loadForTraining: no-reload is not read
loadForTraining_AlwaysReload ==
  LET model == asString(get("model"))
  IN  IF exists(model) THEN tryLoad(model) ELSE {noLoad}

\* lines 37-47: the branch of every mode but translation
loadForTraining ==
  LET model == asString(get("model"))
  IN  IF exists(model) /\ ~asBool(get("no-reload")) THEN tryLoad(model) ELSE {noLoad}

\* lines 49-57: the branch of mode translation
loadForTranslation ==
  LET model == asStringVector(get("models"))[1]
  IN  tryLoad(model)

\* mutant of versionMessage: the version of a loaded model is logged only when
\* it is the build's own
versionMessage_OnlyIfEqual ==
  IF has("version")
    THEN LET version == asString(get("version"))
         IN  IF mode = "training" /\ version # PROJECT_VERSION_FULL
               THEN <<Event(LogUpgrade, version)>>
             ELSE IF version = PROJECT_VERSION_FULL
               THEN <<Event(LogLoaded, version)>>
             ELSE <<>>
  ELSE IF mode = "training"
    THEN <<Event(LogCreated, PROJECT_VERSION_FULL)>>
  ELSE <<>>

\* lines 65-84: the version line logged, <<>> when none is
versionMessage ==
  IF has("version")
    THEN LET version == asString(get("version"))
         IN  IF mode = "training" /\ version # PROJECT_VERSION_FULL
               THEN <<Event(LogUpgrade, version)>>
               ELSE <<Event(LogLoaded, version)>>
  ELSE IF mode = "training"
    THEN <<Event(LogCreated, PROJECT_VERSION_FULL)>>
  ELSE <<>>

\* the values time(0) may return
Times == {1, 2}

UnchangedDevices == UNCHANGED <<ret, devices, abortMsg, locals, myMPIRank, numMPIProcesses>>

\* lines 30-34
SetSeed ==
  /\ pc = "seed"
  /\ \E now \in Times :
       seed' = IF asSizeT(get("seed")) = 0 THEN now ELSE asSizeT(get("seed"))
  /\ pc' = "load"
  /\ UnchangedDevices
  /\ UNCHANGED <<mode, config_, files, trace, parserConfig, loggedConfig, prevConfig,
                 docs, repeated, publicCalls>>

\* lines 36-57
LoadModel ==
  /\ pc = "load"
  /\ \E r \in (IF mode # "translation" THEN loadForTraining ELSE loadForTranslation) :
       /\ pc' = IF r.fatal THEN "aborted" ELSE "log"
       /\ config_' = r.config
       /\ trace' = trace \o r.events
       /\ docs' = docs \o r.docs
       /\ prevConfig' = IF r.docs # <<>> THEN config_ ELSE prevConfig
  /\ UnchangedDevices
  /\ UNCHANGED <<mode, seed, files, parserConfig, loggedConfig, repeated, publicCalls>>

\* line 59, Config::log()
Log ==
  /\ pc = "log"
  /\ trace' = Append(trace, Event(LogConfig, <<>>))
  /\ loggedConfig' = config_
  /\ pc' = "version"
  /\ UnchangedDevices
  /\ UNCHANGED <<mode, config_, seed, files, parserConfig, prevConfig, docs, repeated,
                 publicCalls>>

\* lines 61-84
LogVersion ==
  /\ pc = "version"
  /\ trace' = trace \o versionMessage
  /\ pc' = "done"
  /\ UnchangedDevices
  /\ UNCHANGED <<mode, config_, seed, files, parserConfig, loggedConfig, prevConfig,
                 docs, repeated, publicCalls>>

\* a call of Config::override by the owner of a constructed Config
Override(params) ==
  /\ pc = "done"
  /\ publicCalls < MaxPublicCalls
  /\ config_' = override(config_, params)
  /\ prevConfig' = config_
  /\ repeated' = (docs # <<>> /\ docs[Len(docs)] = params)
  /\ docs' = Append(docs, params)
  /\ trace' = Append(trace, Event(CallOverride, <<>>))
  /\ publicCalls' = publicCalls + 1
  /\ UnchangedDevices
  /\ UNCHANGED <<mode, pc, seed, files, parserConfig, loggedConfig>>

(***************************************************************************)
(* The settings a run starts from, the model files and the documents.      *)
(***************************************************************************)
FileA == <<"a">>
FileB == <<"b">>
OldVersion == <<"v", "1">>
Yes == Scalar(<<"y">>)
No == Scalar(<<"n">>)
Map(pairs) == <<TagM>> \o pairs

\* the fragments a model file may embed
DocCurrent == ("version" :> Scalar(PROJECT_VERSION_FULL)) @@ ("type" :> Scalar(<<"t">>))
DocOld ==
  ("version" :> Scalar(OldVersion)) @@ ("opts" :> Map(<<<<"c", ":", "3">>>>))
    @@ ("dim-vocabs" :> List(<<<<"8">>>>))
DocNoVersion == ("type" :> Scalar(<<"s">>)) @@ ("dim-vocabs" :> List(<<<<"9">>, <<"9">>>>))
ModelDocs == {DocCurrent, DocOld, DocNoVersion}

\* the documents override is called with after construction
DocNested == ("opts" :> Map(<<<<"a", ":", "7">>, <<"d", ":", "4">>>>))
OverrideDocs == {NoDoc, DocOld, DocNoVersion, DocNested}

Artifacts ==
  {[exists |-> FALSE, yml |-> FALSE, doc |-> NoDoc],
   [exists |-> TRUE, yml |-> FALSE, doc |-> NoDoc]}
    \cup {[exists |-> TRUE, yml |-> TRUE, doc |-> d] : d \in ModelDocs}

\* what the parser gives every mode
CommonConfigs ==
  {("seed" :> Scalar(s)) @@ ("ignore-model-config" :> i) @@ ("no-reload" :> n)
     @@ ("cpu-threads" :> Scalar(<<"0">>)) @@ ("devices" :> List(<<>>))
     @@ ("type" :> Scalar(<<"a">>))
     @@ ("opts" :> Map(<<<<"a", ":", "1">>, <<"b", ":", "2">>>>))
     @@ ("dim-vocabs" :> List(<<<<"5">>>>)) :
       s \in {<<"0">>, <<"7">>}, i \in {Yes, No}, n \in {Yes, No}}

\* model for the modes that train or score, models for translation
ParserConfigs(m) ==
  IF m # "translation"
    THEN {c @@ ("model" :> Scalar(FileA)) : c \in CommonConfigs}
    ELSE {c @@ ("models" :> List(ms)) :
            c \in CommonConfigs, ms \in {<<FileA>>, <<FileA, FileB>>, <<FileB, FileA>>}}

Modes == {"training", "translation", "scoring"}

Init ==
  /\ mode \in Modes
  /\ config_ \in ParserConfigs(mode)
  /\ parserConfig = config_
  /\ pc = "seed"
  /\ seed \in Times
  /\ files \in [{FileA, FileB} -> Artifacts]
  /\ trace = <<>>
  /\ loggedConfig = NoDoc
  /\ ret = "none"
  /\ devices = <<>>
  /\ abortMsg = ""
  /\ locals = NoDivision
  /\ myMPIRank = 0
  /\ numMPIProcesses = 1
  /\ prevConfig = config_
  /\ docs = <<>>
  /\ repeated = FALSE
  /\ publicCalls = 0

Next ==
  \/ SetSeed
  \/ LoadModel
  \/ Log
  \/ LogVersion
  \/ \E d \in OverrideDocs : Override(d)

Spec == Init /\ [][Next]_vars

(***************************************************************************)
(* Claims about the device resolver, stated on the call's arguments and    *)
(* outcome.                                                                *)
(***************************************************************************)
CallMade == ret # "none"
CpuThreadsArg == asSizeT(config_["cpu-threads"])
DevicesArg == Tail(config_["devices"])
NumDevicesArg == IF "num-devices" \in DOMAIN config_ THEN asSizeT(config_["num-devices"]) ELSE 0
GpuPath == CallMade /\ CpuThreadsArg = 0
\* numDevices and len(deviceNos) after defaulting, as the specification words them
ResolvedNumDevices ==
  IF NumDevicesArg > 0 THEN NumDevicesArg
  ELSE IF Len(DevicesArg) > 0 THEN Len(DevicesArg) ELSE 1
ResolvedLen == IF Len(DevicesArg) > 0 THEN Len(DevicesArg) ELSE ResolvedNumDevices
GpuOf(nos) == [i \in 1..Len(nos) |-> [no |-> nos[i], type |-> "gpu"]]

\* C1: with cpu-threads = N > 0 the call returns the CPU devices 0..N-1 in
\* ascending order, whatever devices, num-devices, myRank and numProcesses are,
\* and never ends in a fatal error.
C1_CpuDevices ==
  (CallMade /\ CpuThreadsArg > 0) =>
     /\ ret = "returned"
     /\ abortMsg = ""
     /\ Len(devices) = CpuThreadsArg
     /\ \A i \in 1..CpuThreadsArg : devices[i] = [no |-> i - 1, type |-> "cpu"]

C1_Witness ==
  /\ ret = "returned"
  /\ CpuThreadsArg = 2
  /\ NumDevicesArg = 1
  /\ Len(DevicesArg) = 3
  /\ numMPIProcesses = 2
  /\ myMPIRank = 1
  /\ Len(devices) = 2

\* C2: in the GPU path, a devices list of numProcesses * numDevices entries with
\* numProcesses > 1 gives rank myRank the block
\* devices[myRank*numDevices .. myRank*numDevices + numDevices - 1], in order.
C2_PerProcessSlice ==
  (/\ GpuPath
   /\ numMPIProcesses > 1
   /\ myMPIRank < numMPIProcesses
   /\ Len(DevicesArg) = numMPIProcesses * ResolvedNumDevices) =>
     /\ ret = "returned"
     /\ Len(devices) = ResolvedNumDevices
     /\ \A i \in 1..ResolvedNumDevices :
          devices[i] = [no |-> stoull(DevicesArg[myMPIRank * ResolvedNumDevices + i]),
                        type |-> "gpu"]

\* num-devices=1, devices=[4,5], numProcesses=2: rank 1 gets [5]
C2_Witness ==
  /\ GpuPath
  /\ NumDevicesArg = 1
  /\ DevicesArg = <<<<"4">>, <<"5">>>>
  /\ numMPIProcesses = 2
  /\ myMPIRank = 1
  /\ devices = <<[no |-> 5, type |-> "gpu"]>>

\* C3: in the GPU path a list is returned exactly when len(deviceNos) is
\* numDevices or numProcesses * numDevices (both after defaulting); every other
\* call ends in one of the three fatal device errors and returns no list.
C3_ReturnsIffSizesFit ==
  GpuPath =>
     /\ (ret = "returned") <=>
          (ResolvedLen = ResolvedNumDevices
             \/ ResolvedLen = numMPIProcesses * ResolvedNumDevices)
     /\ ret = "returned" => abortMsg = ""
     /\ ret # "returned" =>
          /\ ret = "aborted"
          /\ abortMsg \in {MsgSize, MsgMultiple, MsgShared}
          /\ devices = <<>>

\* numProcesses = 1, num-devices = 2, three devices: fatal
C3_Witness ==
  /\ GpuPath
  /\ numMPIProcesses = 1
  /\ NumDevicesArg = 2
  /\ Len(DevicesArg) = 3
  /\ ret = "aborted"
  /\ abortMsg = MsgSize

\* C4: in the GPU path with an empty devices list the call returns the GPU
\* devices 0..N-1 in ascending order, N being num-devices, or 1 when num-devices
\* is unset or 0, for every myRank and numProcesses.
C4_DefaultDevices ==
  (GpuPath /\ DevicesArg = <<>>) =>
     LET N == IF NumDevicesArg = 0 THEN 1 ELSE NumDevicesArg
     IN  /\ ret = "returned"
         /\ Len(devices) = N
         /\ \A i \in 1..N : devices[i] = [no |-> i - 1, type |-> "gpu"]

\* num-devices = 4, no devices, rank 2 of 3: [0,1,2,3]
C4_Witness ==
  /\ GpuPath
  /\ DevicesArg = <<>>
  /\ NumDevicesArg = 4
  /\ numMPIProcesses = 3
  /\ myMPIRank = 2
  /\ devices = GpuOf(<<0, 1, 2, 3>>)

\* C5: in the GPU path, when len(deviceNos) = numDevices for a non-empty devices
\* list (num-devices equal to its length, or unset), every rank of every
\* numProcesses gets the parsed list as it stands: same length, same order,
\* duplicates kept.
C5_SharedVerbatim ==
  (/\ GpuPath
   /\ DevicesArg # <<>>
   /\ Len(DevicesArg) = ResolvedNumDevices) =>
     /\ ret = "returned"
     /\ Len(devices) = Len(DevicesArg)
     /\ \A i \in 1..Len(DevicesArg) :
          devices[i] = [no |-> stoull(DevicesArg[i]), type |-> "gpu"]

\* devices = [5, 2, 5] with num-devices unset, rank 1 of 2: [5, 2, 5]
C5_Witness ==
  /\ GpuPath
  /\ "num-devices" \notin DOMAIN config_
  /\ DevicesArg = <<<<"5">>, <<"0", "2">>, <<"5">>>>
  /\ numMPIProcesses = 2
  /\ myMPIRank = 1
  /\ devices = GpuOf(<<5, 2, 5>>)

(***************************************************************************)
(* Claims about override and initialize.                                   *)
(***************************************************************************)
AllKeys == DOMAIN parserConfig \cup DOMAIN config_ \cup UNION {DOMAIN docs[i] : i \in 1..Len(docs)}
Positions(msg) == {i \in 1..Len(trace) : trace[i].msg = msg}
\* the override calls initialize itself made
InitOverrides == Len(docs) - publicCalls
InitReturned == pc = "done" /\ publicCalls = 0

\* C6: override is idempotent: a second override(doc) right after override(doc)
\* leaves the store as the first call left it.
C6_OverrideIdempotent == repeated => config_ = prevConfig

\* the document changed the store the first time and was applied again
C6_Witness ==
  /\ repeated
  /\ Len(docs) = 2
  /\ docs[2] = DocOld
  /\ config_ # parserConfig
  /\ config_["dim-vocabs"] = List(<<<<"8">>>>)

\* C7: after override(doc) every top-level key of doc holds doc's value in full,
\* every other key is as it was (same value, or still absent), and after a
\* sequence of overrides a key holds the value of the last document that had it.
C7_ShallowLastWriteWins ==
  docs # <<>> =>
    LET doc == docs[Len(docs)]
    IN  /\ \A k \in DOMAIN doc : k \in DOMAIN config_ /\ config_[k] = doc[k]
        /\ \A k \in AllKeys \ DOMAIN doc :
             /\ (k \in DOMAIN config_) <=> (k \in DOMAIN prevConfig)
             /\ k \in DOMAIN config_ => config_[k] = prevConfig[k]
        /\ \A k \in AllKeys :
             LET had == {i \in 1..Len(docs) : k \in DOMAIN docs[i]}
             IN  IF had = {}
                   THEN /\ (k \in DOMAIN config_) <=> (k \in DOMAIN parserConfig)
                        /\ k \in DOMAIN config_ => config_[k] = parserConfig[k]
                   ELSE LET last == CHOOSE i \in had : \A j \in had : j <= i
                        IN  k \in DOMAIN config_ /\ config_[k] = docs[last][k]

\* opts {a:1, b:2} replaced by {c:3}, then by {a:7, d:4}; version kept from the
\* first document, type from the parser
C7_Witness ==
  /\ docs = <<DocOld, DocNested>>
  /\ parserConfig["opts"] = Map(<<<<"a", ":", "1">>, <<"b", ":", "2">>>>)
  /\ prevConfig["opts"] = Map(<<<<"c", ":", "3">>>>)
  /\ config_["opts"] = Map(<<<<"a", ":", "7">>, <<"d", ":", "4">>>>)
  /\ config_["version"] = Scalar(OldVersion)
  /\ "version" \notin DOMAIN parserConfig
  /\ config_["type"] = parserConfig["type"]

VersionEvents ==
  SelectSeq(trace, LAMBDA e : e.msg \in {LogUpgrade, LogLoaded, LogCreated})
VersionPresent == "version" \in DOMAIN config_
VersionText == asString(config_["version"])

\* C8 as stated: upgrade message when version is present, unequal and the mode
\* is training; loaded message when present and equal; created message when
\* absent and the mode is training; no message otherwise.
C8_Original ==
  InitReturned =>
    VersionEvents =
      IF VersionPresent /\ VersionText # PROJECT_VERSION_FULL /\ mode = "training"
        THEN <<Event(LogUpgrade, VersionText)>>
      ELSE IF VersionPresent /\ VersionText = PROJECT_VERSION_FULL
        THEN <<Event(LogLoaded, VersionText)>>
      ELSE IF ~VersionPresent /\ mode = "training"
        THEN <<Event(LogCreated, PROJECT_VERSION_FULL)>>
      ELSE <<>>

\* C8 amended: upgrade message when version is present, unequal and the mode is
\* training; loaded message in every other case with version present (equal, or
\* the mode is not training); created message when absent and the mode is
\* training; no message when absent and the mode is not training.
C8_VersionMessage ==
  InitReturned =>
    VersionEvents =
      IF VersionPresent /\ VersionText # PROJECT_VERSION_FULL /\ mode = "training"
        THEN <<Event(LogUpgrade, VersionText)>>
      ELSE IF VersionPresent
        THEN <<Event(LogLoaded, VersionText)>>
      ELSE IF ~VersionPresent /\ mode = "training"
        THEN <<Event(LogCreated, PROJECT_VERSION_FULL)>>
      ELSE <<>>

\* a model of another version loaded for translation: the loaded message
C8_Witness ==
  /\ InitReturned
  /\ mode = "translation"
  /\ VersionPresent
  /\ VersionText = OldVersion
  /\ trace[Len(trace)] = Event(LogLoaded, OldVersion)

\* the model files initialize read without finding the fragment in them
ReadWithoutFragment ==
  {i \in Positions(CallLoad) : files[trace[i].arg].exists /\ ~files[trace[i].arg].yml}

\* C9: a model file without the special:model.yml fragment is not fatal, in the
\* translation branch and in the other: the store stays as the parser made it,
\* the informational line is logged, and initialize goes on to log the
\* configuration and the version message.
C9_NoFragmentNotFatal ==
  \A i \in ReadWithoutFragment :
    /\ pc \in {"log", "version", "done"}
    /\ i < Len(trace) /\ trace[i + 1] = Event(LogNoModelConfig, <<>>)
    /\ InitOverrides = 0
    /\ publicCalls = 0 => config_ = parserConfig
    /\ pc \in {"version", "done"} =>
         /\ trace[i + 2] = Event(LogConfig, <<>>)
         /\ loggedConfig = parserConfig
    /\ pc = "done" =>
         SubSeq(trace, i + 3, Len(trace) - publicCalls) =
           IF mode = "training" THEN <<Event(LogCreated, PROJECT_VERSION_FULL)>> ELSE <<>>

\* translation: the first of two models has no fragment, initialize returned
C9_Witness ==
  /\ InitReturned
  /\ mode = "translation"
  /\ ReadWithoutFragment # {}
  /\ Len(asStringVector(config_["models"])) = 2
  /\ files[asStringVector(config_["models"])[2]].yml
  /\ config_ = parserConfig
  /\ trace = <<Event(CallLoad, asStringVector(config_["models"])[1]),
               Event(LogNoModelConfig, <<>>), Event(LogConfig, <<>>)>>

\* C10: with ignore-model-config set initialize never overrides; in the modes
\* other than translation it overrides only if the model file exists and
\* no-reload is false; in translation it loads models[0] whatever no-reload and
\* the file system say; and it overrides at most once, before the configuration
\* is logged and the version message chosen.
C10_LoadOrder ==
  LET ignore == asBool(parserConfig["ignore-model-config"])
      noReload == asBool(parserConfig["no-reload"])
      logs == Positions(LogConfig)
      overrides == Positions(CallOverride)
      versions == {i \in 1..Len(trace) : trace[i].msg \in {LogUpgrade, LogLoaded, LogCreated}}
  IN  /\ ignore => InitOverrides = 0 /\ Positions(CallLoad) = {}
      /\ (mode # "translation" /\ InitOverrides > 0) =>
           /\ files[asString(parserConfig["model"])].exists
           /\ ~noReload
           /\ trace[1] = Event(CallLoad, asString(parserConfig["model"]))
      /\ (mode = "translation" /\ ~ignore /\ pc # "load" /\ pc # "seed") =>
           trace[1] = Event(CallLoad, asStringVector(parserConfig["models"])[1])
      /\ InitOverrides \in {0, 1}
      /\ Cardinality(overrides) = Len(docs)
      /\ Cardinality(Positions(CallLoad)) <= 1
      /\ Cardinality(logs) <= 1
      /\ \A l \in logs :
           /\ Cardinality({o \in overrides : o < l}) = InitOverrides
           /\ \A v \in versions : l < v
           /\ InitOverrides = 1 => loggedConfig = override(parserConfig, docs[1])
           /\ InitOverrides = 0 => loggedConfig = parserConfig
      /\ (pc \in {"seed", "load", "log"}) => versions = {}

\* translation with no-reload set and models[0] = b: b's fragment is applied
\* once, then the configuration is logged, then the version message
C10_Witness ==
  /\ InitReturned
  /\ mode = "translation"
  /\ asBool(parserConfig["no-reload"])
  /\ asStringVector(parserConfig["models"]) = <<FileB, FileA>>
  /\ files[FileA].yml
  /\ files[FileB].doc = DocCurrent
  /\ docs = <<DocCurrent>>
  /\ trace = <<Event(CallLoad, FileB), Event(CallOverride, <<>>), Event(LogConfig, <<>>),
               Event(LogLoaded, PROJECT_VERSION_FULL)>>

(***************************************************************************)
(* Claims about the division and the slice of the GPU branch.              *)
(***************************************************************************)
\* C11: in the GPU path every call that reaches the division
\* len(deviceNos) / numDevices divides by a numDevices of at least 1, also with
\* num-devices unset or 0; every list returned has exactly numDevices entries,
\* all of kind gpu; and with myRank < numProcesses the block taken in the
\* per-process case lies inside the devices list.
C11_DivisionAndLength ==
  GpuPath =>
    /\ ret # "undefined"
    /\ locals.divided => locals.numDevices >= 1
    /\ ret = "returned" =>
         /\ locals.divided
         /\ locals.numDevices = ResolvedNumDevices
         /\ Len(devices) = locals.numDevices
         /\ \A i \in 1..Len(devices) : devices[i].type = "gpu"
    /\ (locals.sliced /\ myMPIRank < numMPIProcesses) =>
         /\ locals.size = Len(DevicesArg)
         /\ myMPIRank * locals.numDevices + locals.numDevices <= locals.size
         /\ \A i \in 1..locals.numDevices :
              devices[i].no = stoull(DevicesArg[myMPIRank * locals.numDevices + i])

\* num-devices given as 0 with two devices listed, rank 1 of 2: divided by 2
C11_Witness ==
  /\ GpuPath
  /\ "num-devices" \in DOMAIN config_
  /\ NumDevicesArg = 0
  /\ Len(DevicesArg) = 2
  /\ numMPIProcesses = 2
  /\ myMPIRank = 1
  /\ locals.divided
  /\ locals.numDevices = 2
  /\ ret = "returned"
  /\ Len(devices) = 2

====
